---- MODULE Spec2Model ----
(***************************************************************************)
(* Model of the MOF synthetic-data generator (generate_synthetic_data.py)  *)
(* and of the simulation core of the dashboard (streamlit_app.py).         *)
(*                                                                         *)
(* Numbers.  Python floats are modelled by exact arithmetic where a value  *)
(* is a product or quotient of table entries (a rational <<num, den>> in   *)
(* lowest terms), and by fixed point where the code applies exp, a power   *)
(* or additive noise (the unit is named at each definition).  Floating     *)
(* point rounding is not modelled.                                         *)
(*                                                                         *)
(* Randomness.  numpy's process-wide generator is a record [key, ctr]:     *)
(* the key is what np.random.seed installs, the counter is the number of   *)
(* values drawn since.  The n-th value of a stream is a fixed function of  *)
(* (key, n), so a stream is reproducible from its seed and a call that     *)
(* draws k values advances the counter by k.                               *)
(***************************************************************************)
EXTENDS Integers, Sequences, FiniteSets, TLC

VARIABLES
    rng,        \* np.random global state of the interpreter serving API calls
    call,       \* the call in progress: function name and arguments
    result,     \* what the call returned or raised
    proc,       \* the executions of the script: proc[r] is one python process
    ui,         \* the dashboard's widget values
    page        \* what the dashboard rendered on the last click

vars == <<rng, call, result, proc, ui, page>>

-----------------------------------------------------------------------------
(* Configuration and parameter spaces                                       *)

\* NUM_SAMPLES is 5000 in the source; the model runs the same loop with a
\* small count, and reports progress every PROGRESS_EVERY samples (500 in
\* the source).
NUM_SAMPLES == 4
PROGRESS_EVERY == 2
RANDOM_SEED == 42

METALS == <<"Cu", "Ni", "Co", "Zn", "Fe", "Mn", "Ag", "Au", "Pd", "Pt",
            "Cr", "V", "Ti", "Mo", "W">>
VALENCIES == <<1, 2, 3>>
LIGANDS == <<"BDC", "BTC", "DOBDC", "BPDC", "NDC", "TPA">>
ASSEMBLIES == <<"Two-Electrode", "Three-Electrode">>
ELECTRODES == <<"Nickel Foam", "Glassy Carbon", "Carbon Cloth", "Stainless Steel">>
IS_MOF == <<TRUE, FALSE>>

Range(s) == {s[i] : i \in DOMAIN s}

\* Values outside the tables, as a direct caller of a generator may pass.
UnknownMetals == {"Xx"}
UnknownLigands == {"XYZ"}
UnknownElectrodes == {"Copper Foil"}

MetalUniverse == Range(METALS) \cup UnknownMetals
LigandUniverse == Range(LIGANDS) \cup UnknownLigands
ElectrodeUniverse == Range(ELECTRODES) \cup UnknownElectrodes

\* Every parameter dictionary a caller can hand to a generator.
ParamUniverse ==
    [metal : MetalUniverse, valency : Range(VALENCIES), ligand : LigandUniverse,
     assembly : Range(ASSEMBLIES), electrode : ElectrodeUniverse,
     is_mof : BOOLEAN]

\* The parameter dictionaries generate_sample can draw.
ValidParams ==
    [metal : Range(METALS), valency : Range(VALENCIES), ligand : Range(LIGANDS),
     assembly : Range(ASSEMBLIES), electrode : Range(ELECTRODES),
     is_mof : BOOLEAN]

-----------------------------------------------------------------------------
(* Exact arithmetic: a rational is <<num, den>>, den > 0, in lowest terms.  *)

Abs(x) == IF x < 0 THEN -x ELSE x
Min(a, b) == IF a <= b THEN a ELSE b
Max(a, b) == IF a >= b THEN a ELSE b

RECURSIVE Gcd(_, _)
Gcd(a, b) == IF b = 0 THEN a ELSE Gcd(b, a % b)

Rat(n, d) ==
    LET s == IF d < 0 THEN -1 ELSE 1
        g == Gcd(Abs(n), Abs(d))
    IN  <<(s * n) \div g, (s * d) \div g>>

\* Product and quotient cancel across before multiplying, so that no
\* intermediate value is larger than the result needs.
RatMul(a, b) ==
    LET g1 == Gcd(Abs(a[1]), b[2])
        g2 == Gcd(Abs(b[1]), a[2])
    IN  Rat((a[1] \div g1) * (b[1] \div g2), (a[2] \div g2) * (b[2] \div g1))
RatDiv(a, b) == RatMul(a, Rat(b[2], b[1]))
RatInt(n) == <<n, 1>>
\* x given in hundredths, as the tables below hold their factors
Pct(x) == Rat(x, 100)
\* a rational rounded down to an integer count of 1/unit
ToFixed(a, unit) == ((a[1] \div a[2]) * unit) + (((a[1] % a[2]) * unit) \div a[2])

-----------------------------------------------------------------------------
(* Property tables.  Every coefficient is held in hundredths.               *)

\* The keys of the three dict literals, as the source writes them
METAL_KEYS ==
    {"Cu", "Ni", "Co", "Zn", "Fe", "Mn", "Ag", "Au", "Pd", "Pt", "Cr", "V", "Ti", "Mo", "W"}
ELECTRODE_KEYS == {"Nickel Foam", "Glassy Carbon", "Carbon Cloth", "Stainless Steel"}
LIGAND_KEYS == {"BDC", "BTC", "DOBDC", "BPDC", "NDC", "TPA"}

METAL_PROPERTIES ==
    [m \in METAL_KEYS |->
       CASE m = "Cu" -> [redox_factor |-> 120, conductivity |-> 115, plasmon_peak |-> 2200, d_transition |-> 500]
         [] m = "Ni" -> [redox_factor |-> 110, conductivity |-> 110, plasmon_peak |-> 2000, d_transition |-> 600]
         [] m = "Co" -> [redox_factor |-> 115, conductivity |-> 112, plasmon_peak |-> 2100, d_transition |-> 550]
         [] m = "Zn" -> [redox_factor |-> 95,  conductivity |-> 105, plasmon_peak |-> 1900, d_transition |-> 700]
         [] m = "Fe" -> [redox_factor |-> 105, conductivity |-> 108, plasmon_peak |-> 2050, d_transition |-> 650]
         [] m = "Mn" -> [redox_factor |-> 100, conductivity |-> 106, plasmon_peak |-> 1950, d_transition |-> 680]
         [] m = "Ag" -> [redox_factor |-> 125, conductivity |-> 120, plasmon_peak |-> 2300, d_transition |-> 450]
         [] m = "Au" -> [redox_factor |-> 118, conductivity |-> 118, plasmon_peak |-> 2400, d_transition |-> 480]
         [] m = "Pd" -> [redox_factor |-> 112, conductivity |-> 114, plasmon_peak |-> 2150, d_transition |-> 520]
         [] m = "Pt" -> [redox_factor |-> 122, conductivity |-> 117, plasmon_peak |-> 2350, d_transition |-> 500]
         [] m = "Cr" -> [redox_factor |-> 108, conductivity |-> 109, plasmon_peak |-> 2020, d_transition |-> 620]
         [] m = "V"  -> [redox_factor |-> 106, conductivity |-> 107, plasmon_peak |-> 1980, d_transition |-> 650]
         [] m = "Ti" -> [redox_factor |-> 98,  conductivity |-> 104, plasmon_peak |-> 1850, d_transition |-> 720]
         [] m = "Mo" -> [redox_factor |-> 113, conductivity |-> 111, plasmon_peak |-> 2180, d_transition |-> 580]
         [] m = "W"  -> [redox_factor |-> 116, conductivity |-> 113, plasmon_peak |-> 2250, d_transition |-> 550]]

DefaultMetalProperties ==
    [redox_factor |-> 100, conductivity |-> 100, plasmon_peak |-> 2000, d_transition |-> 600]

\* get_metal_properties with the two peak defaults exchanged
get_metal_properties_swapped(metal) ==
    IF metal \in DOMAIN METAL_PROPERTIES
    THEN METAL_PROPERTIES[metal]
    ELSE [DefaultMetalProperties EXCEPT !.plasmon_peak = 600, !.d_transition = 2000]

get_metal_properties(metal) ==
    IF metal \in DOMAIN METAL_PROPERTIES
    THEN METAL_PROPERTIES[metal]
    ELSE DefaultMetalProperties

ELECTRODE_PROPERTIES ==
    [e \in ELECTRODE_KEYS |->
       CASE e = "Nickel Foam"     -> [capacity_boost |-> 130, resistance |-> 80]
         [] e = "Glassy Carbon"   -> [capacity_boost |-> 100, resistance |-> 100]
         [] e = "Carbon Cloth"    -> [capacity_boost |-> 115, resistance |-> 90]
         [] e = "Stainless Steel" -> [capacity_boost |-> 110, resistance |-> 110]]

\* LIGAND_PROPERTIES without its last entry
LIGAND_PROPERTIES_without_TPA ==
    [l \in LIGAND_KEYS \ {"TPA"} |->
       CASE l = "BDC"   -> [porosity |-> 110, stability |-> 100]
         [] l = "BTC"   -> [porosity |-> 120, stability |-> 110]
         [] l = "DOBDC" -> [porosity |-> 115, stability |-> 105]
         [] l = "BPDC"  -> [porosity |-> 105, stability |-> 95]
         [] l = "NDC"   -> [porosity |-> 108, stability |-> 102]]

LIGAND_PROPERTIES ==
    [l \in LIGAND_KEYS |->
       CASE l = "BDC"   -> [porosity |-> 110, stability |-> 100]
         [] l = "BTC"   -> [porosity |-> 120, stability |-> 110]
         [] l = "DOBDC" -> [porosity |-> 115, stability |-> 105]
         [] l = "BPDC"  -> [porosity |-> 105, stability |-> 95]
         [] l = "NDC"   -> [porosity |-> 108, stability |-> 102]
         [] l = "TPA"   -> [porosity |-> 112, stability |-> 108]]

\* A python call either returns a value or raises: [raised, value].
Returned(v) == [raised |-> "none", value |-> v]
Raised(e) == [raised |-> e, value |-> <<>>]

\* table[key] of a python dict: KeyError when the key is absent.
Subscript(table, key) ==
    IF key \in DOMAIN table THEN Returned(table[key]) ELSE Raised("KeyError")

-----------------------------------------------------------------------------
(* numpy: the global random generator                                       *)

\* np.random.seed(seed): the stream that seed names, from its start.
np_random_seed(seed) == [key |-> seed, ctr |-> 0]

\* The raw 16-bit value of the n-th next draw of generator g (n >= 1).
Raw(g, n) == ((g.key * 7919) + ((g.ctr + n) * 25173) + 13849) % (2^16)

\* g after k values were drawn from it
Advance(g, k) == [g EXCEPT !.ctr = @ + k]

\* np.random.random(): a float in [0, 1), in thousandths (0 .. 999)
Uniform(g, n) == (Raw(g, n) * 1000) \div (2^16)

\* np.random.choice(list): one draw, every element of the list equally likely
Choice(list, g, n) == list[((Raw(g, n) * Len(list)) \div (2^16)) + 1]

\* Standard normal deviates in thousandths of sigma.  The support of a normal
\* deviate is unbounded: the two outermost entries stand for its far tails.
ZTABLE == <<-40000, -3000, -1860, -1320, -1010, -780, -400, -80,
            80, 400, 780, 1010, 1320, 1860, 3000, 40000>>

\* One N(0, sigma) deviate, in the unit sigma is given in
Normal(g, n, sigma) ==
    (sigma * ZTABLE[((Raw(g, n) * Len(ZTABLE)) \div (2^16)) + 1]) \div 1000

\* np.random.normal(0, sigma, size): size deviates, drawn in order
NormalVec(g, first, sigma, size) ==
    [k \in 1..size |-> Normal(g, first + k - 1, sigma)]

-----------------------------------------------------------------------------
(* numpy: arrays and elementary functions                                   *)

\* np.linspace without its first point: point k is start + (k + 1) * step
Linspace_from_step(start, stop, num) ==
    [k \in 1..num |-> start + ((k * (stop - start)) \div num)]

\* np.linspace(start, stop, num) for fixed-point start and stop: point k is
\* start + k * (stop - start) / (num - 1), k = 0 .. num - 1
Linspace(start, stop, num) ==
    [k \in 1..num |-> start + (((k - 1) * (stop - start)) \div (num - 1))]

\* np.clip with the ceiling left out
Clip_floor_only(x, lo, hi) == Max(x, lo)

\* np.clip(x, lo, None) left out
ClipFloor_none(x, lo) == x

\* np.clip(x, lo, hi) = minimum(maximum(x, lo), hi)
Clip(x, lo, hi) == Min(Max(x, lo), hi)

\* np.clip(x, lo, None): a floor and no ceiling
ClipFloor(x, lo) == Max(x, lo)

\* exp(-i) for i = 0 .. 12, in millionths
EXP_NEG_INT == <<1000000, 367879, 135335, 49787, 18316, 6738, 2479, 912,
                 335, 123, 45, 17, 6>>

\* exp(-f) for 0 <= f < 1 given in thousandths, in millionths: the Taylor
\* series to the tenth power, in Horner form
ExpNegFrac(f) ==
    LET h10 == 1000000 - ((f * 1000000) \div 10000)
        h9  == 1000000 - ((f * h10) \div 9000)
        h8  == 1000000 - ((f * h9) \div 8000)
        h7  == 1000000 - ((f * h8) \div 7000)
        h6  == 1000000 - ((f * h7) \div 6000)
        h5  == 1000000 - ((f * h6) \div 5000)
        h4  == 1000000 - ((f * h5) \div 4000)
        h3  == 1000000 - ((f * h4) \div 3000)
        h2  == 1000000 - ((f * h3) \div 2000)
    IN  1000000 - ((f * h2) \div 1000)

\* np.exp(-x) for x = 0 .. 12.999, x in thousandths, value in 1/10000
EXP_NEG ==
    [x \in 0..12999 |->
        ((EXP_NEG_INT[(x \div 1000) + 1] \div 10) * (ExpNegFrac(x % 1000) \div 100))
            \div 100000]

\* np.exp(-x), x >= 0 in thousandths, value in 1/10000 (0 beyond the table)
ExpNeg(x) == IF x \in DOMAIN EXP_NEG THEN EXP_NEG[x] ELSE 0

-----------------------------------------------------------------------------
(* generate_synthetic_data.py: the four curve generators                    *)

\* A generator call returns a value or raises, and leaves the global
\* generator advanced by the values it drew: [raised, value, rng].
Ret(v, g) == [raised |-> "none", value |-> v, rng |-> g]
Exc(e, g) == [raised |-> e, value |-> <<>>, rng |-> g]

MofFactor(is_mof) == IF is_mof THEN Rat(15, 10) ELSE RatInt(1)
AssemblyFactor(assembly) ==
    IF assembly = "Three-Electrode" THEN Rat(11, 10) ELSE RatInt(1)

GCD_POINTS == 200
\* current_densities of generate_gcd_curve, and the f'current_{current}' keys
GCD_CURRENTS == <<Rat(5, 10), Rat(10, 10), Rat(15, 10), Rat(20, 10), Rat(25, 10)>>
GCD_KEYS == <<"current_0.5", "current_1.0", "current_1.5", "current_2.0", "current_2.5">>

\* base_capacity, capacity_multiplier and max_time of generate_gcd_curve, for
\* an electrode and a ligand the tables hold
gcd_base_capacity(params) == 100 * params.valency

\* capacity_multiplier without the assembly factor, as max_capacity of
\* generate_rate_capability is built
gcd_capacity_multiplier_no_assembly(params) ==
    RatMul(RatMul(RatMul(Pct(get_metal_properties(params.metal).redox_factor),
                         Pct(ELECTRODE_PROPERTIES[params.electrode].capacity_boost)),
                  Pct(LIGAND_PROPERTIES[params.ligand].porosity)),
           MofFactor(params.is_mof))

gcd_capacity_multiplier(params) ==
    LET metal_factor == Pct(get_metal_properties(params.metal).redox_factor)
        electrode_factor == Pct(ELECTRODE_PROPERTIES[params.electrode].capacity_boost)
        ligand_factor == Pct(LIGAND_PROPERTIES[params.ligand].porosity)
        mof_factor == MofFactor(params.is_mof)
        assembly_factor == AssemblyFactor(params.assembly)
    IN  RatMul(RatMul(RatMul(RatMul(metal_factor, electrode_factor), ligand_factor),
                      mof_factor), assembly_factor)

gcd_max_time(params, current) ==
    RatDiv(RatMul(RatInt(gcd_base_capacity(params)), gcd_capacity_multiplier(params)),
           RatMul(current, RatInt(60)))

\* One pass of the loop over current_densities: the i-th discharge trace.
\* time in thousandths of an hour, voltage in 1/10000 V.
gcd_trace(params, g, i) ==
    LET first == (GCD_POINTS + 2) * (i - 1)
        max_time == ToFixed(gcd_max_time(params, GCD_CURRENTS[i]), 1000)
        time == Linspace(0, max_time, GCD_POINTS)
        V_start == 9000 + Uniform(g, first + 1)
        V_end == 1000 + (Uniform(g, first + 2) \div 2)
        noise == NormalVec(g, first + 3, 100, Len(time))
    IN  [time |-> time,
         voltage |-> [k \in 1..Len(time) |->
             V_end + (((V_start - V_end) * ExpNeg((time[k] * 3000) \div max_time)) \div 10000)
                   + noise[k]]]

generate_gcd_curve(params, g) ==
    IF Subscript(ELECTRODE_PROPERTIES, params.electrode).raised # "none"
    THEN Exc(Subscript(ELECTRODE_PROPERTIES, params.electrode).raised, g)
    ELSE IF Subscript(LIGAND_PROPERTIES, params.ligand).raised # "none"
    THEN Exc(Subscript(LIGAND_PROPERTIES, params.ligand).raised, g)
    ELSE Ret([key \in Range(GCD_KEYS) |->
                 gcd_trace(params, g, CHOOSE i \in DOMAIN GCD_KEYS : GCD_KEYS[i] = key)],
             Advance(g, Len(GCD_CURRENTS) * (GCD_POINTS + 2)))

RATE_POINTS == 10
\* x ** 0.3 for x = 1/k, k = 1 .. 10, in 1/10000
POW_03 == <<10000, 8123, 7192, 6598, 6170, 5842, 5578, 5359, 5173, 5012>>
PowThreeTenths(x) == POW_03[x[2]]

\* max_capacity of generate_rate_capability, for keys the tables hold
rate_max_capacity(params) ==
    LET base_capacity == 100 * params.valency
        metal_factor == Pct(METAL_PROPERTIES[params.metal].redox_factor)
        electrode_factor == Pct(ELECTRODE_PROPERTIES[params.electrode].capacity_boost)
        ligand_factor == Pct(LIGAND_PROPERTIES[params.ligand].porosity)
        mof_factor == MofFactor(params.is_mof)
    IN  RatMul(RatMul(RatMul(RatMul(RatInt(base_capacity), metal_factor),
                             electrode_factor), ligand_factor), mof_factor)

\* current_density in thousandths of A/g, specific_capacity in hundredths of
\* mAh/g
\* generate_rate_capability returning the capacities without the last one
generate_rate_capability_truncated(params, g) ==
    IF Subscript(METAL_PROPERTIES, params.metal).raised # "none"
    THEN Exc(Subscript(METAL_PROPERTIES, params.metal).raised, g)
    ELSE IF Subscript(ELECTRODE_PROPERTIES, params.electrode).raised # "none"
    THEN Exc(Subscript(ELECTRODE_PROPERTIES, params.electrode).raised, g)
    ELSE IF Subscript(LIGAND_PROPERTIES, params.ligand).raised # "none"
    THEN Exc(Subscript(LIGAND_PROPERTIES, params.ligand).raised, g)
    ELSE
      LET current_densities == Linspace(500, 5000, RATE_POINTS)
          max_capacity == ToFixed(rate_max_capacity(params), 100)
          noise == NormalVec(g, 1, (max_capacity * 2) \div 100, Len(current_densities))
          capacity == [k \in 1..Len(current_densities) |->
              ((max_capacity * PowThreeTenths(Rat(500, current_densities[k]))) \div 10000)
                  + noise[k]]
      IN  Ret([current_density |-> current_densities,
               specific_capacity |->
                   [k \in 1..(Len(capacity) - 1) |-> Clip(capacity[k], 0, max_capacity)]],
              Advance(g, Len(current_densities)))

generate_rate_capability(params, g) ==
    IF Subscript(METAL_PROPERTIES, params.metal).raised # "none"
    THEN Exc(Subscript(METAL_PROPERTIES, params.metal).raised, g)
    ELSE IF Subscript(ELECTRODE_PROPERTIES, params.electrode).raised # "none"
    THEN Exc(Subscript(ELECTRODE_PROPERTIES, params.electrode).raised, g)
    ELSE IF Subscript(LIGAND_PROPERTIES, params.ligand).raised # "none"
    THEN Exc(Subscript(LIGAND_PROPERTIES, params.ligand).raised, g)
    ELSE
      LET current_densities == Linspace(500, 5000, RATE_POINTS)
          max_capacity == ToFixed(rate_max_capacity(params), 100)
          noise == NormalVec(g, 1, (max_capacity * 2) \div 100, Len(current_densities))
          capacity == [k \in 1..Len(current_densities) |->
              ((max_capacity * PowThreeTenths(Rat(500, current_densities[k]))) \div 10000)
                  + noise[k]]
      IN  Ret([current_density |-> current_densities,
               specific_capacity |->
                   [k \in 1..Len(capacity) |-> Clip(capacity[k], 0, max_capacity)]],
              Advance(g, Len(current_densities)))

IES_POINTS == 500

\* A Gaussian peak intensity * exp(-((energy - centre) / width) ** 2):
\* energy, centre and width in thousandths of eV, intensity in 1/10000
GaussianPeak(intensity, energy, centre, width) ==
    LET r == ((energy - centre) * 1000) \div width
    IN  (intensity * ExpNeg((r * r) \div 1000)) \div 10000

\* energy in thousandths of eV, intensity in 1/10000
generate_ies_spectrum(params, g) ==
    LET energy == Linspace(0, 50000, IES_POINTS)
        metal_props == get_metal_properties(params.metal)
        plasmon_energy == metal_props.plasmon_peak * 10
        plasmon_intensity == 8000 + (2 * Uniform(g, 1))
        plasmon_width == 2000 + (Uniform(g, 2) \div 2)
        d_transition_energy == metal_props.d_transition * 10
        d_intensity == 4000 + Uniform(g, 3)
        d_width == 1500 + ((3 * Uniform(g, 4)) \div 10)
        noise == NormalVec(g, 5, 100, Len(energy))
        spectrum == [k \in 1..Len(energy) |->
            GaussianPeak(plasmon_intensity, energy[k], plasmon_energy, plasmon_width)
              + GaussianPeak(d_intensity, energy[k], d_transition_energy, d_width)
              + ((1000 * ExpNeg(energy[k] \div 30)) \div 10000)
              + noise[k]]
    IN  Ret([energy |-> energy,
             intensity |-> [k \in 1..Len(spectrum) |-> ClipFloor(spectrum[k], 0)]],
            Advance(g, 4 + Len(energy)))

EIS_POINTS == 100

\* frequency is held by its decimal logarithm in thousandths (np.logspace is
\* 10 ** np.linspace).  The Randles impedance Z_total is not evaluated: a
\* point of z_real / z_imag is the term Re / -Im Z_total(circuit, frequency)
\* together with the noise added to it, in thousandths of an ohm.
generate_eis_nyquist(params, g) ==
    LET freq == Linspace(-2000, 5000, EIS_POINTS)
        R_solution == 5000 + (2 * Uniform(g, 1))
    IN  IF Subscript(ELECTRODE_PROPERTIES, params.electrode).raised # "none"
        THEN Exc(Subscript(ELECTRODE_PROPERTIES, params.electrode).raised, Advance(g, 1))
        ELSE
          LET R_ct == (ELECTRODE_PROPERTIES[params.electrode].resistance
                          * (20000 + (10 * Uniform(g, 2)))) \div 100
              CPE_T == 10000 + (5 * Uniform(g, 3))
              CPE_P == 8500 + Uniform(g, 4)
              W == 10000 + (5 * Uniform(g, 5))
              Z_total == [k \in 1..Len(freq) |->
                             <<R_solution, R_ct, CPE_T, CPE_P, W, freq[k]>>]
              noise_real == NormalVec(g, 6, 500, Len(Z_total))
              noise_imag == NormalVec(g, 6 + Len(Z_total), 500, Len(Z_total))
          IN  Ret([z_real |-> [k \in 1..Len(Z_total) |->
                                  [part |-> "real", of |-> Z_total[k], noise |-> noise_real[k]]],
                   z_imag |-> [k \in 1..Len(Z_total) |->
                                  [part |-> "-imag", of |-> Z_total[k], noise |-> noise_imag[k]]],
                   frequency |-> freq],
                  Advance(g, 5 + (2 * Len(Z_total))))

-----------------------------------------------------------------------------
(* generate_synthetic_data.py: one sample, and its feature vector           *)

\* generate_sample handing generate_eis_nyquist a parameter set of its own
generate_sample_other_electrode(g) ==
    LET params == [metal |-> Choice(METALS, g, 1),
                   valency |-> Choice(VALENCIES, g, 2),
                   ligand |-> Choice(LIGANDS, g, 3),
                   assembly |-> Choice(ASSEMBLIES, g, 4),
                   electrode |-> Choice(ELECTRODES, g, 5),
                   is_mof |-> Choice(IS_MOF, g, 6)]
        gcd == generate_gcd_curve(params, Advance(g, 6))
        rate_capability == generate_rate_capability(params, gcd.rng)
        ies == generate_ies_spectrum(params, rate_capability.rng)
        eis == generate_eis_nyquist([params EXCEPT !.electrode = ELECTRODES[1]], ies.rng)
    IN  IF gcd.raised # "none" THEN Exc(gcd.raised, gcd.rng)
        ELSE IF rate_capability.raised # "none"
        THEN Exc(rate_capability.raised, rate_capability.rng)
        ELSE IF ies.raised # "none" THEN Exc(ies.raised, ies.rng)
        ELSE IF eis.raised # "none" THEN Exc(eis.raised, eis.rng)
        ELSE Ret([inputs |-> params,
                  outputs |-> [gcd |-> gcd.value,
                               rate_capability |-> rate_capability.value,
                               ies |-> ies.value,
                               eis |-> eis.value]],
                 eis.rng)

\* generate_sample drawing the valency before the metal
generate_sample_valency_first(g) ==
    LET params == [metal |-> Choice(METALS, g, 2),
                   valency |-> Choice(VALENCIES, g, 1),
                   ligand |-> Choice(LIGANDS, g, 3),
                   assembly |-> Choice(ASSEMBLIES, g, 4),
                   electrode |-> Choice(ELECTRODES, g, 5),
                   is_mof |-> Choice(IS_MOF, g, 6)]
        gcd == generate_gcd_curve(params, Advance(g, 6))
        rate_capability == generate_rate_capability(params, gcd.rng)
        ies == generate_ies_spectrum(params, rate_capability.rng)
        eis == generate_eis_nyquist(params, ies.rng)
    IN  IF gcd.raised # "none" THEN Exc(gcd.raised, gcd.rng)
        ELSE IF rate_capability.raised # "none"
        THEN Exc(rate_capability.raised, rate_capability.rng)
        ELSE IF ies.raised # "none" THEN Exc(ies.raised, ies.rng)
        ELSE IF eis.raised # "none" THEN Exc(eis.raised, eis.rng)
        ELSE Ret([inputs |-> params,
                  outputs |-> [gcd |-> gcd.value,
                               rate_capability |-> rate_capability.value,
                               ies |-> ies.value,
                               eis |-> eis.value]],
                 eis.rng)

generate_sample(g) ==
    LET params == [metal |-> Choice(METALS, g, 1),
                   valency |-> Choice(VALENCIES, g, 2),
                   ligand |-> Choice(LIGANDS, g, 3),
                   assembly |-> Choice(ASSEMBLIES, g, 4),
                   electrode |-> Choice(ELECTRODES, g, 5),
                   is_mof |-> Choice(IS_MOF, g, 6)]
        gcd == generate_gcd_curve(params, Advance(g, 6))
        rate_capability == generate_rate_capability(params, gcd.rng)
        ies == generate_ies_spectrum(params, rate_capability.rng)
        eis == generate_eis_nyquist(params, ies.rng)
    IN  IF gcd.raised # "none" THEN Exc(gcd.raised, gcd.rng)
        ELSE IF rate_capability.raised # "none"
        THEN Exc(rate_capability.raised, rate_capability.rng)
        ELSE IF ies.raised # "none" THEN Exc(ies.raised, ies.rng)
        ELSE IF eis.raised # "none" THEN Exc(eis.raised, eis.rng)
        ELSE Ret([inputs |-> params,
                  outputs |-> [gcd |-> gcd.value,
                               rate_capability |-> rate_capability.value,
                               ies |-> ies.value,
                               eis |-> eis.value]],
                 eis.rng)

\* OneHot over range(len(list) - 1): the last category is never encoded
OneHot_skip_last(list, value) ==
    [i \in 1..(Len(list) - 1) |-> IF value = list[i] THEN RatInt(1) ELSE RatInt(0)]

OneHot(list, value) ==
    [i \in 1..Len(list) |-> IF value = list[i] THEN RatInt(1) ELSE RatInt(0)]

create_feature_vector(params) ==
    OneHot(METALS, params.metal)
      \o <<Rat(params.valency, 3)>>
      \o OneHot(LIGANDS, params.ligand)
      \o <<IF params.assembly = "Three-Electrode" THEN RatInt(1) ELSE RatInt(0)>>
      \o OneHot(ELECTRODES, params.electrode)
      \o <<IF params.is_mof THEN RatInt(1) ELSE RatInt(0)>>

-----------------------------------------------------------------------------
(* Direct calls of the module's functions.  One behaviour is one call: the  *)
(* caller has chosen the function and its argument, the global generator is *)
(* at any of the start states below, and the call runs to its end.          *)

MaxSeed == 1
MaxStart == 3

\* The calls of fn on each argument of argset, not yet run.
Pending(fn, argset) == {[fn |-> fn, args |-> <<a>>, done |-> FALSE] : a \in argset}

InitCall(keys, starts, calls) ==
    /\ rng \in [key : keys, ctr : starts]
    /\ call \in calls
    /\ result = Returned(<<>>)
    /\ proc = <<>>
    /\ ui = <<>>
    /\ page = <<>>

\* The pending call of fn runs on the global generator and ends as r does.
Runs(fn, r) ==
    /\ call.fn = fn
    /\ ~call.done
    /\ call' = [call EXCEPT !.done = TRUE]
    /\ result' = [raised |-> r.raised, value |-> r.value]
    /\ rng' = r.rng
    /\ UNCHANGED <<proc, ui, page>>

CallGetMetalProperties ==
    Runs("get_metal_properties", Ret(get_metal_properties(call.args[1]), rng))

CallCreateFeatureVector ==
    Runs("create_feature_vector", Ret(create_feature_vector(call.args[1]), rng))

CallGenerateGcdCurve ==
    Runs("generate_gcd_curve", generate_gcd_curve(call.args[1], rng))

CallGenerateRateCapability ==
    Runs("generate_rate_capability", generate_rate_capability(call.args[1], rng))

CallGenerateIesSpectrum ==
    Runs("generate_ies_spectrum", generate_ies_spectrum(call.args[1], rng))

CallGenerateEisNyquist ==
    Runs("generate_eis_nyquist", generate_eis_nyquist(call.args[1], rng))

\* generate_ies_spectrum reads params['metal'] alone, generate_eis_nyquist
\* params['metal'] and params['electrode']: the other fields are held at
\* their first values.
IesParams ==
    {p \in ParamUniverse : /\ p.valency = VALENCIES[1] /\ p.ligand = LIGANDS[1]
                           /\ p.assembly = ASSEMBLIES[1] /\ p.electrode = ELECTRODES[1]
                           /\ p.is_mof}
EisParams ==
    {p \in ParamUniverse : /\ p.valency = VALENCIES[1] /\ p.ligand = LIGANDS[1]
                           /\ p.assembly = ASSEMBLIES[1] /\ p.is_mof}

InitTables ==
    InitCall({RANDOM_SEED}, {0},
             Pending("get_metal_properties", MetalUniverse)
                 \cup Pending("create_feature_vector", ValidParams))
NextTables == CallGetMetalProperties \/ CallCreateFeatureVector
SpecTables == InitTables /\ [][NextTables]_vars

InitGcd == InitCall({RANDOM_SEED}, {0}, Pending("generate_gcd_curve", ParamUniverse))
NextGcd == CallGenerateGcdCurve
SpecGcd == InitGcd /\ [][NextGcd]_vars

InitRate ==
    InitCall(0..MaxSeed, 0..MaxStart, Pending("generate_rate_capability", ParamUniverse))
NextRate == CallGenerateRateCapability
SpecRate == InitRate /\ [][NextRate]_vars

InitIes == InitCall(0..MaxSeed, 0..MaxStart, Pending("generate_ies_spectrum", IesParams))
NextIes == CallGenerateIesSpectrum
SpecIes == InitIes /\ [][NextIes]_vars

InitEis == InitCall(0..MaxSeed, 0..MaxStart, Pending("generate_eis_nyquist", EisParams))
NextEis == CallGenerateEisNyquist
SpecEis == InitEis /\ [][NextEis]_vars

\* A call of any of the four generators, with any parameter set that differs
\* in a field the generator reads
InitGenerators ==
    InitCall({RANDOM_SEED}, {0},
             Pending("generate_gcd_curve", ParamUniverse)
                 \cup Pending("generate_rate_capability", ParamUniverse)
                 \cup Pending("generate_ies_spectrum", IesParams)
                 \cup Pending("generate_eis_nyquist", EisParams))
NextGenerators ==
    \/ CallGenerateGcdCurve
    \/ CallGenerateRateCapability
    \/ CallGenerateIesSpectrum
    \/ CallGenerateEisNyquist
SpecGenerators == InitGenerators /\ [][NextGenerators]_vars

\* A call of generate_sample, which takes its input from the global
\* generator: call.at keeps the state the generator had when it was called.
MaxSampleSeed == 24
InitSample ==
    /\ rng \in [key : 0..MaxSampleSeed, ctr : 0..MaxStart]
    /\ call = [fn |-> "generate_sample", args |-> <<>>, done |-> FALSE, at |-> rng]
    /\ result = Returned(<<>>)
    /\ proc = <<>>
    /\ ui = <<>>
    /\ page = <<>>
CallGenerateSample == Runs("generate_sample", generate_sample(rng))
NextSample == CallGenerateSample
SpecSample == InitSample /\ [][NextSample]_vars

-----------------------------------------------------------------------------
(* Executions of the script: python generate_synthetic_data.py.  Each is    *)
(* its own interpreter with its own numpy generator, which numpy seeds from *)
(* the operating system's entropy when it is imported.                      *)

MaxEntropy == 3
RunIds == {1, 2}
EntropyKeys == {1000 + e : e \in 0..MaxEntropy}

\* The module's top-level code on the interpreter's generator g, left out
SeedAtImport_unseeded(g) == g

\* The module's top-level code (lines 12 - 14) on the interpreter's
\* generator g: np.random.seed(RANDOM_SEED)
SeedAtImport(g) == np_random_seed(RANDOM_SEED)

\* The python types of the values np.random.choice hands generate_sample, in
\* the order the params dict holds its keys.
INPUT_KEYS == <<"metal", "valency", "ligand", "assembly", "electrode", "is_mof">>
InputType(key) ==
    CASE key = "valency" -> "numpy.int64"
      [] key = "is_mof" -> "numpy.bool_"
      [] OTHER -> "numpy.str_"

\* What json's encoder accepts: str, int, float, bool, None, list, dict and
\* their subclasses (numpy.str_ is a str, numpy.float64 a float).
JsonEncodable(type) ==
    type \in {"str", "int", "float", "bool", "numpy.str_", "numpy.float64"}

\* The keys of the first sample's inputs that the encoder writes before it
\* meets a value it cannot encode.
EncodedKeys ==
    {j \in DOMAIN INPUT_KEYS :
        \A h \in 1..j : JsonEncodable(InputType(INPUT_KEYS[h]))}

\* with open(output_file, 'w') as f: json.dump(dataset, f, indent=2).  The
\* encoder writes chunk by chunk, so a value it cannot encode leaves the file
\* holding what was written before it.
json_dump(dataset) ==
    IF dataset = <<>> \/ EncodedKeys = DOMAIN INPUT_KEYS
    THEN [raised |-> "none", file |-> [records |-> dataset, partial |-> <<>>]]
    ELSE [raised |-> "TypeError",
          file |-> [records |-> <<>>,
                    partial |-> [j \in EncodedKeys |->
                                    <<INPUT_KEYS[j], dataset[1].inputs[INPUT_KEYS[j]]>>]]]

NoFile == [records |-> <<>>, partial |-> <<>>]

InitRuns ==
    /\ proc \in [RunIds -> {[pc |-> "start", rng |-> [key |-> e, ctr |-> 0], i |-> 0,
                             dataset |-> <<>>, feature_data |-> <<>>, stdout |-> <<>>,
                             stderr |-> <<>>, json_file |-> NoFile, csv_file |-> <<>>,
                             error |-> "none"] : e \in EntropyKeys}]
    /\ rng = <<>>
    /\ call = <<>>
    /\ result = <<>>
    /\ ui = <<>>
    /\ page = <<>>

\* The interpreter runs the module's top-level code, down to the call of
\* main() under if __name__ == "__main__".
ImportModule(r) ==
    /\ proc[r].pc = "start"
    /\ proc' = [proc EXCEPT ![r].pc = "main", ![r].rng = SeedAtImport(@)]
    /\ UNCHANGED <<rng, call, result, ui, page>>

\* main(): the two opening prints, the output directory (its parent is taken
\* to exist) and the two empty lists.
MainBegin(r) ==
    /\ proc[r].pc = "main"
    /\ proc' = [proc EXCEPT ![r].pc = "loop",
                            ![r].i = 0,
                            ![r].dataset = <<>>,
                            ![r].feature_data = <<>>,
                            ![r].stdout = @ \o <<<<"Generating synthetic MOF performance data...">>,
                                                 <<"Target samples", NUM_SAMPLES>>>>]
    /\ UNCHANGED <<rng, call, result, ui, page>>

\* The row main() adds to feature_data: sample['inputs'].copy() with the
\* feature vector under 'features'.
feature_row(sample) ==
    [k \in DOMAIN sample.inputs \cup {"features"} |->
        IF k = "features" THEN create_feature_vector(sample.inputs) ELSE sample.inputs[k]]

\* feature_row = sample['inputs'] in place of its copy: one dict under two
\* names
dict_copy_same_object(d) == [items |-> d, same_object |-> TRUE]

\* d.copy(): a dict of its own holding the items of d.  same_object tells
\* whether an assignment to the result is an assignment to d.
dict_copy(d) == [items |-> d, same_object |-> FALSE]

\* What the interpreter writes to stderr when exception e leaves main()
Traceback(e) == <<<<"Traceback (most recent call last)", e>>>>

\* One pass of for i in range(NUM_SAMPLES): the progress line is printed
\* first, then the sample is generated and appended, then its feature row is
\* built; feature_row['features'] = features is an assignment to the copy.
LoopStep(r) ==
    /\ proc[r].pc = "loop"
    /\ proc[r].i < NUM_SAMPLES
    /\ \E sample \in {generate_sample(proc[r].rng)} :
       LET i == proc[r].i
           printed == IF (i + 1) % PROGRESS_EVERY = 0
                      THEN proc[r].stdout \o <<<<"Generated", i + 1, NUM_SAMPLES>>>>
                      ELSE proc[r].stdout
           copied == dict_copy(sample.value.inputs)
           appended == IF copied.same_object
                       THEN [sample.value EXCEPT !.inputs = feature_row(sample.value)]
                       ELSE sample.value
       IN  proc' = [proc EXCEPT ![r] =
               IF sample.raised # "none"
               THEN [@ EXCEPT !.pc = "failed", !.error = sample.raised,
                              !.stderr = @ \o Traceback(sample.raised),
                              !.stdout = printed, !.rng = sample.rng]
               ELSE [@ EXCEPT !.pc = IF i + 1 < NUM_SAMPLES THEN "loop" ELSE "dump",
                              !.i = i + 1,
                              !.stdout = printed,
                              !.rng = sample.rng,
                              !.dataset = Append(@, appended),
                              !.feature_data = Append(@, feature_row(sample.value))]]
    /\ UNCHANGED <<rng, call, result, ui, page>>

\* Save complete dataset as JSON.  The inputs of a sample are numpy scalars,
\* and json cannot encode numpy.int64: the dump raises TypeError, which
\* nothing catches, and the interpreter exits.  The code of main() after the
\* dump (the csv file, the statistics) is therefore never run.
DumpJson(r) ==
    /\ proc[r].pc = "dump"
    /\ LET d == json_dump(proc[r].dataset)
       IN  proc' = [proc EXCEPT ![r] =
               IF d.raised # "none"
               THEN [@ EXCEPT !.pc = "failed", !.error = d.raised,
                              !.stderr = @ \o Traceback(d.raised), !.json_file = d.file]
               ELSE [@ EXCEPT !.pc = "saved", !.json_file = d.file,
                              !.stdout = @ \o <<<<"Saved complete dataset">>>>]]
    /\ UNCHANGED <<rng, call, result, ui, page>>

Init == InitRuns
Next == \E r \in RunIds : ImportModule(r) \/ MainBegin(r) \/ LoopStep(r) \/ DumpJson(r)
Spec == Init /\ [][Next]_vars

-----------------------------------------------------------------------------
(* streamlit_app.py: the dashboard.  A python str is a sequence of          *)
(* one-character strings here, so that upper(), split(), strip() and the    *)
(* substring test are computed on the characters.                           *)

LOWER_CASE == <<"a", "b", "c", "d", "e", "f", "g", "h", "i", "j", "k", "l", "m",
                "n", "o", "p", "q", "r", "s", "t", "u", "v", "w", "x", "y", "z">>
UPPER_CASE == <<"A", "B", "C", "D", "E", "F", "G", "H", "I", "J", "K", "L", "M",
                "N", "O", "P", "Q", "R", "S", "T", "U", "V", "W", "X", "Y", "Z">>

\* s.upper()
str_upper(s) ==
    [i \in 1..Len(s) |->
        IF \E k \in 1..Len(LOWER_CASE) : LOWER_CASE[k] = s[i]
        THEN UPPER_CASE[CHOOSE k \in 1..Len(LOWER_CASE) : LOWER_CASE[k] = s[i]]
        ELSE s[i]]

\* sub in s
str_contains(sub, s) ==
    \E i \in 1..(Len(s) - Len(sub) + 1) : SubSeq(s, i, i + Len(sub) - 1) = sub

\* s.split(sep)[0], sep one character
str_split_first(s, sep) ==
    LET at == {i \in 1..Len(s) : s[i] = sep}
    IN  IF at = {} THEN s
        ELSE SubSeq(s, 1, (CHOOSE i \in at : \A j \in at : i <= j) - 1)

\* s.strip()
str_strip(s) ==
    LET ink == {i \in 1..Len(s) : s[i] # " "}
    IN  IF ink = {} THEN <<>>
        ELSE SubSeq(s, CHOOSE i \in ink : \A j \in ink : i <= j,
                       CHOOSE i \in ink : \A j \in ink : i >= j)

\* METAL_DATABASE of the dashboard, its keys in the order the dict holds them
\* and its factors in hundredths.
DATABASE_METALS ==
    <<<<"C", "u">>,
      <<"N", "i">>,
      <<"C", "o">>,
      <<"Z", "n">>,
      <<"F", "e">>,
      <<"M", "n">>,
      <<"A", "g">>,
      <<"A", "u">>,
      <<"P", "d">>,
      <<"P", "t">>>>
METAL_DATABASE ==
    [m \in Range(DATABASE_METALS) |->
       CASE m = <<"C", "u">> -> [redox_factor |-> 120, conductivity |-> 115, color |-> "#b87333"]
         [] m = <<"N", "i">> -> [redox_factor |-> 110, conductivity |-> 110, color |-> "#8c92ac"]
         [] m = <<"C", "o">> -> [redox_factor |-> 115, conductivity |-> 112, color |-> "#0047ab"]
         [] m = <<"Z", "n">> -> [redox_factor |-> 95, conductivity |-> 105, color |-> "#7a7f84"]
         [] m = <<"F", "e">> -> [redox_factor |-> 105, conductivity |-> 108, color |-> "#b7410e"]
         [] m = <<"M", "n">> -> [redox_factor |-> 100, conductivity |-> 106, color |-> "#9c6f7b"]
         [] m = <<"A", "g">> -> [redox_factor |-> 125, conductivity |-> 120, color |-> "#c0c0c0"]
         [] m = <<"A", "u">> -> [redox_factor |-> 118, conductivity |-> 118, color |-> "#ffd700"]
         [] m = <<"P", "d">> -> [redox_factor |-> 112, conductivity |-> 114, color |-> "#ccc5b9"]
         [] m = <<"P", "t">> -> [redox_factor |-> 122, conductivity |-> 117, color |-> "#e5e4e2"]]

\* get_metal_properties of the dashboard
app_get_metal_properties(metal) ==
    IF str_upper(metal) \in DOMAIN METAL_DATABASE
    THEN METAL_DATABASE[str_upper(metal)]
    ELSE [redox_factor |-> 100, conductivity |-> 100, color |-> "#808080"]

\* SCHOLAR_REFERENCES: eis_resistance and retention in hundredths
SCHOLAR_KEYS ==
    <<<<"C", "u", "-", "B", "D", "C">>,
      <<"N", "i", "-", "B", "T", "C">>,
      <<"C", "o", "-", "D", "O", "B", "D", "C">>,
      <<"Z", "n", "-", "T", "P", "A">>,
      <<"C", "u", "-", "4", ",", "4", "-", "b", "i", "p", "y", "r", "i", "d", "i", "n", "e">>>>
SCHOLAR_REFERENCES ==
    [k \in Range(SCHOLAR_KEYS) |->
       CASE k = SCHOLAR_KEYS[1] ->
            [authors |-> "Wang et al.", gcd_capacity |-> 285, eis_resistance |-> 1250,
             retention |-> 48, citation_count |-> 156]
         [] k = SCHOLAR_KEYS[2] ->
            [authors |-> "Chen et al.", gcd_capacity |-> 245, eis_resistance |-> 1520,
             retention |-> 42, citation_count |-> 98]
         [] k = SCHOLAR_KEYS[3] ->
            [authors |-> "Li et al.", gcd_capacity |-> 268, eis_resistance |-> 1380,
             retention |-> 45, citation_count |-> 124]
         [] k = SCHOLAR_KEYS[4] ->
            [authors |-> "Kumar et al.", gcd_capacity |-> 198, eis_resistance |-> 1850,
             retention |-> 36, citation_count |-> 87]
         [] k = SCHOLAR_KEYS[5] ->
            [authors |-> "Research Team", gcd_capacity |-> 315, eis_resistance |-> 242,
             retention |-> 92, citation_count |-> 45]]

\* python's None, as a record so that it compares with a table entry
None == [none |-> TRUE]

\* get_scholar_reference: SCHOLAR_REFERENCES.get(key, None)
get_scholar_reference(metal, ligand) ==
    LET clean_ligand ==
            IF str_contains(<<"B", "D", "C">>, ligand) THEN <<"B", "D", "C">>
            ELSE IF str_contains(<<"B", "T", "C">>, ligand) THEN <<"B", "T", "C">>
            ELSE IF str_contains(<<"D", "O", "B", "D", "C">>, ligand)
            THEN <<"D", "O", "B", "D", "C">>
            ELSE IF str_contains(<<"T", "P", "A">>, ligand) THEN <<"T", "P", "A">>
            ELSE ligand
        key == metal \o <<"-">> \o clean_ligand
    IN  IF key \in DOMAIN SCHOLAR_REFERENCES THEN SCHOLAR_REFERENCES[key] ELSE None

\* The options of the ligand select box
LIGAND_OPTIONS ==
    <<<<"4", ",", "4", "-", "b", "i", "p", "y", "r", "i", "d", "i", "n", "e", " ", "(", "B", "p", "y", ")">>,
      <<"I", "s", "o", "n", "i", "c", "o", "t", "i", "n", "i", "c", " ", "a", "c", "i", "d", " ", "(", "I", "N", "A", ")">>,
      <<"B", "D", "C">>,
      <<"B", "T", "C">>,
      <<"D", "O", "B", "D", "C">>,
      <<"B", "P", "D", "C">>>>

\* electrode_boost of MOF_style_simulation, in hundredths
ELECTRODE_BOOST ==
    [e \in Range(ELECTRODES) |->
       CASE e = "Nickel Foam" -> 130
         [] e = "Glassy Carbon" -> 100
         [] e = "Carbon Cloth" -> 115
         [] e = "Stainless Steel" -> 110]

\* current_densities of MOF_style_simulation
APP_CURRENTS ==
    <<Rat(25, 100), Rat(50, 100), Rat(75, 100), RatInt(1), Rat(125, 100),
      Rat(150, 100), Rat(175, 100), RatInt(2), Rat(225, 100)>>

RatLeq(a, b) == (a[1] * b[2]) <= (b[1] * a[2])
RatAdd(a, b) == Rat((a[1] * b[2]) + (b[1] * a[2]), a[2] * b[2])

app_capacity_mult(params) ==
    RatMul(RatMul(Pct(app_get_metal_properties(params.metal).redox_factor),
                  Pct(ELECTRODE_BOOST[params.electrode])),
           MofFactor(params.is_mof))

\* max_time = min((base_capacity * capacity_mult) / (current * 60), time_range_max)
app_max_time(params, current, time_range_max) ==
    LET t == RatDiv(RatMul(RatInt(100 * params.valency), app_capacity_mult(params)),
                    RatMul(current, RatInt(60)))
    IN  IF RatLeq(t, RatInt(time_range_max)) THEN t ELSE RatInt(time_range_max)

\* gcd_data[current] of the i-th pass of the loop over current_densities.
\* v_min and v_max are given in tenths of a volt; time is held in
\* thousandths, voltage in 1/10000 V.  time / max_time is point k of
\* linspace(0, 1, 200).
app_trace(params, v_min, v_max, time_range_max, g, i) ==
    LET max_time == ToFixed(app_max_time(params, APP_CURRENTS[i], time_range_max), 1000)
        noise == NormalVec(g, (GCD_POINTS * (i - 1)) + 1, 50, GCD_POINTS)
    IN  [time |-> Linspace(0, max_time, GCD_POINTS),
         voltage |-> [k \in 1..GCD_POINTS |->
                        Clip(((v_max * 1000)
                                - ((((v_max - v_min) * 1000) * (k - 1)) \div (GCD_POINTS - 1)))
                               + noise[k],
                             v_min * 1000, v_max * 1000)]]

\* Q_s = current * max_time * 3600 / 1000
app_Q_s(params, current, time_range_max) ==
    RatDiv(RatMul(RatMul(current, app_max_time(params, current, time_range_max)),
                  RatInt(3600)),
           RatInt(1000))

EIS_APP_POINTS == 50

\* MOF_style_simulation(params, voltage_range, time_range_max) on the global
\* generator g.  v_max - v_min is a python float: dividing Q_s by 0.0 raises
\* ZeroDivisionError in the first pass of the loop, after that pass has drawn
\* its noise.  The resistances are in thousandths of an ohm; the two Nyquist
\* curves are kept as the circuit they are computed from.
MOF_style_simulation(params, voltage_range, time_range_max, g) ==
    LET v_min == voltage_range[1]
        v_max == voltage_range[2]
        passes == DOMAIN APP_CURRENTS
        conductivity == Pct(app_get_metal_properties(params.metal).conductivity)
        Rs == 1500 + (Uniform(g, (Len(APP_CURRENTS) * GCD_POINTS) + 1) \div 2)
        Rct_before == RatAdd(RatInt(5), RatDiv(RatInt(3), conductivity))
        Rct_after == RatAdd(RatInt(2), RatDiv(RatInt(1), conductivity))
    IN  IF v_max = v_min
        THEN Exc("ZeroDivisionError", Advance(g, GCD_POINTS))
        ELSE Ret([gcd_data |-> [i \in passes |->
                                   app_trace(params, v_min, v_max, time_range_max, g, i)],
                  current_densities |-> APP_CURRENTS,
                  specific_capacities |->
                      [i \in passes |-> app_Q_s(params, APP_CURRENTS[i], time_range_max)],
                  specific_capacitances |->
                      [i \in passes |->
                          RatDiv(app_Q_s(params, APP_CURRENTS[i], time_range_max),
                                 Rat(v_max - v_min, 10))],
                  eis_before |-> [points |-> EIS_APP_POINTS, Rs |-> Rs,
                                  Rct |-> Rct_before, tau |-> Rat(1, 100), W |-> RatInt(8)],
                  eis_after |-> [points |-> EIS_APP_POINTS, Rs |-> (Rs * 95) \div 100,
                                 Rct |-> Rct_after, tau |-> Rat(15, 1000), W |-> Rat(64, 10)],
                  Rs_before |-> Rs,
                  Rs_after |-> (Rs * 95) \div 100,
                  Rct_before |-> Rct_before,
                  Rct_after |-> Rct_after],
                 Advance(g, (Len(APP_CURRENTS) * GCD_POINTS) + 1))

(* The page: streamlit runs main() from its top on every interaction.  ui   *)
(* holds the values of the sidebar's widgets, page what the run has put in  *)
(* the main area.  The two axis inputs of the Nyquist plot only set the     *)
(* range of a drawing and are left out.                                     *)

MaxInteractions == 3
MaxVolt == 3
ASSEMBLY_OPTIONS == <<"Two-Electrode (Hybrid Device)", "Three-Electrode">>
\* what the user types into the custom metal field, besides its initial "Cu"
TypedMetals == {<<"C", "u">>, <<"c", "u">>, <<"X", "x">>}
\* what the user enters in the two voltage fields, in tenths of a volt
VoltageInputs == {3 * k : k \in 0..MaxVolt}
\* what the user enters as the maximum time (min_value 100)
TimeInputs == {100, 500}

InitialWidgets ==
    [use_custom_metal |-> FALSE,
     metal_text |-> <<"C", "u">>,
     metal_select |-> DATABASE_METALS[1],
     valency |-> 2,
     ligand |-> LIGAND_OPTIONS[1],
     assembly |-> ASSEMBLY_OPTIONS[1],
     electrode |-> ELECTRODES[1],
     is_mof |-> TRUE,
     voltage_min |-> 0,
     voltage_max |-> 6,
     time_max |-> 500,
     compare_scholar |-> TRUE,
     interactions |-> 0]

\* the else branch of if predict_button: the welcome text
WelcomePage ==
    [view |-> "welcome", error |-> "none", params |-> <<>>, voltage_range |-> <<>>,
     scholar_ref |-> None, results |-> <<>>]

InitApp ==
    /\ ui = InitialWidgets
    /\ page = WelcomePage
    /\ rng \in [key : 0..MaxSeed, ctr : {0}]
    /\ call = <<>>
    /\ result = <<>>
    /\ proc = <<>>

\* A run of main() that an edit of a sidebar widget starts: predict_button is
\* False, the main area shows the welcome text.
Rerun(widgets) ==
    /\ ui.interactions < MaxInteractions
    /\ widgets # ui
    /\ ui' = [widgets EXCEPT !.interactions = @ + 1]
    /\ page' = WelcomePage
    /\ UNCHANGED <<rng, call, result, proc>>

\* The metal field and the metal select box exist only on their side of the
\* checkbox; a widget that is drawn again starts from its initial value.
SetUseCustomMetal ==
    Rerun([ui EXCEPT !.use_custom_metal = ~@,
                     !.metal_text = InitialWidgets.metal_text,
                     !.metal_select = InitialWidgets.metal_select])
TypeMetal ==
    /\ ui.use_custom_metal
    /\ \E text \in TypedMetals : Rerun([ui EXCEPT !.metal_text = text])
SelectMetal ==
    /\ ~ui.use_custom_metal
    /\ \E metal \in Range(DATABASE_METALS) : Rerun([ui EXCEPT !.metal_select = metal])
SetValency == \E valency \in 1..3 : Rerun([ui EXCEPT !.valency = valency])
SelectLigand == \E ligand \in Range(LIGAND_OPTIONS) : Rerun([ui EXCEPT !.ligand = ligand])
SetAssembly ==
    \E assembly \in Range(ASSEMBLY_OPTIONS) : Rerun([ui EXCEPT !.assembly = assembly])
SelectElectrode ==
    \E electrode \in Range(ELECTRODES) : Rerun([ui EXCEPT !.electrode = electrode])
SetIsMof == Rerun([ui EXCEPT !.is_mof = ~@])
SetVoltageMin == \E v \in VoltageInputs : Rerun([ui EXCEPT !.voltage_min = v])
SetVoltageMax == \E v \in VoltageInputs : Rerun([ui EXCEPT !.voltage_max = v])
SetTimeMax == \E t \in TimeInputs : Rerun([ui EXCEPT !.time_max = t])
SetCompareScholar == Rerun([ui EXCEPT !.compare_scholar = ~@])

\* The params dict the handler of the button builds from the widgets
app_params ==
    [metal |-> IF ui.use_custom_metal THEN str_upper(ui.metal_text) ELSE ui.metal_select,
     valency |-> ui.valency,
     ligand |-> str_strip(str_split_first(ui.ligand, "(")),
     assembly |-> IF ui.assembly = ASSEMBLY_OPTIONS[1]
                  THEN "Two-Electrode" ELSE "Three-Electrode",
     electrode |-> ui.electrode,
     is_mof |-> ui.is_mof]

\* The run of main() that a click on the button starts: if predict_button.
\* An exception that leaves MOF_style_simulation leaves main(), and streamlit
\* shows it in place of the results.
ClickPredict ==
    /\ ui.interactions < MaxInteractions
    /\ \E sim \in {MOF_style_simulation(app_params, <<ui.voltage_min, ui.voltage_max>>,
                                        ui.time_max, rng)} :
          /\ page' = [view |-> IF sim.raised = "none" THEN "results" ELSE "exception",
                      error |-> sim.raised,
                      params |-> app_params,
                      voltage_range |-> <<ui.voltage_min, ui.voltage_max>>,
                      scholar_ref |-> IF ui.compare_scholar
                                      THEN get_scholar_reference(app_params.metal,
                                                                 app_params.ligand)
                                      ELSE None,
                      results |-> sim.value]
          /\ rng' = sim.rng
    /\ ui' = [ui EXCEPT !.interactions = @ + 1]
    /\ UNCHANGED <<call, result, proc>>

NextApp ==
    \/ SetUseCustomMetal
    \/ TypeMetal
    \/ SelectMetal
    \/ SetValency
    \/ SelectLigand
    \/ SetAssembly
    \/ SelectElectrode
    \/ SetIsMof
    \/ SetVoltageMin
    \/ SetVoltageMax
    \/ SetTimeMax
    \/ SetCompareScholar
    \/ ClickPredict
SpecApp == InitApp /\ [][NextApp]_vars

-----------------------------------------------------------------------------
(* Properties of the direct calls                                           *)

Called(fn) == call.fn = fn /\ call.done

\* The coefficient a claim names for a metal: the table's, or the neutral
\* default 1.0 for a metal the table does not hold.
ClaimedRedoxFactor(metal) ==
    IF metal \in Range(METALS) THEN METAL_PROPERTIES[metal].redox_factor ELSE 100

\* redox_factor * capacity_boost * porosity * (1.5 if is_mof else 1.0)
ClaimedCapacityBasis(p) ==
    Rat(ClaimedRedoxFactor(p.metal) * ELECTRODE_PROPERTIES[p.electrode].capacity_boost
            * LIGAND_PROPERTIES[p.ligand].porosity * (IF p.is_mof THEN 15 ELSE 10),
        10000000)

\* 100 * valency * the capacity basis
ClaimedMaxCapacity(p) == RatMul(RatInt(100 * p.valency), ClaimedCapacityBasis(p))

\* the capacity basis * (1.1 if Three-Electrode else 1.0)
ClaimedCapacityMultiplier(p) ==
    RatMul(ClaimedCapacityBasis(p),
           IF p.assembly = "Three-Electrode" THEN Rat(11, 10) ELSE Rat(10, 10))

\* base_capacity * capacity_multiplier / (c * 60)
ClaimedMaxTime(p, c) ==
    RatDiv(RatMul(RatInt(100 * p.valency), ClaimedCapacityMultiplier(p)),
           RatMul(c, RatInt(60)))

TablesHold(p) == p.ligand \in Range(LIGANDS) /\ p.electrode \in Range(ELECTRODES)

\* C2: for every metal, in the table or not, and every valid valency, ligand,
\* electrode and is_mof, generate_rate_capability returns, and its capacities
\* are bounded by max_capacity = 100 * valency * redox_factor * capacity_boost
\* * porosity * (1.5 if is_mof else 1.0), an unknown metal counting 1.0.
C2_RateBasisAnyMetal ==
    (Called("generate_rate_capability") /\ TablesHold(call.args[1])) =>
        /\ result.raised = "none"
        /\ \A k \in DOMAIN result.value.specific_capacity :
               result.value.specific_capacity[k]
                   <= ToFixed(ClaimedMaxCapacity(call.args[1]), 100)

\* C3: get_metal_properties never raises; it returns the table's entry for a
\* metal of the table and redox_factor 1.0, conductivity 1.0, plasmon_peak
\* 20.0, d_transition 6.0 for any other metal.
C3_MetalLookupTotal ==
    Called("get_metal_properties") =>
        /\ result.raised = "none"
        /\ IF call.args[1] \in DOMAIN METAL_PROPERTIES
           THEN result.value = METAL_PROPERTIES[call.args[1]]
           ELSE result.value = [redox_factor |-> 100, conductivity |-> 100,
                                plasmon_peak |-> 2000, d_transition |-> 600]

C3_Witness ==
    /\ Called("get_metal_properties")
    /\ call.args[1] \notin DOMAIN METAL_PROPERTIES
    /\ result.value.plasmon_peak = 2000

\* C4: a generator handed a ligand or an electrode outside the enumerated
\* sets ends in UnknownCategoryError (generate_gcd_curve and
\* generate_rate_capability read both, generate_eis_nyquist the electrode).
C4_UnknownCategoryError ==
    (/\ call.done
     /\ \/ /\ call.fn \in {"generate_gcd_curve", "generate_rate_capability"}
           /\ ~TablesHold(call.args[1])
        \/ /\ call.fn = "generate_eis_nyquist"
           /\ call.args[1].electrode \notin Range(ELECTRODES))
        => result.raised = "UnknownCategoryError"

\* A one-hot block f[lo .. hi]: zeros and ones that sum to exactly 1.
BlockSumsToOne(f, lo, hi) ==
    /\ \A i \in lo..hi : f[i] \in {RatInt(0), RatInt(1)}
    /\ Cardinality({i \in lo..hi : f[i] = RatInt(1)}) = 1

Flag(b) == IF b THEN RatInt(1) ELSE RatInt(0)

\* C6: for every valid parameter set create_feature_vector returns a vector
\* of length |METALS| + |LIGANDS| + |ELECTRODES| + 3 = 28, laid out as metal
\* one-hot, valency / 3, ligand one-hot, three-electrode flag, electrode
\* one-hot, MOF flag, and each of the three one-hot blocks sums to 1.
C6_FeatureVectorLayout ==
    Called("create_feature_vector") =>
        LET p == call.args[1]
            f == result.value
            nM == Len(METALS)
            nL == Len(LIGANDS)
            nE == Len(ELECTRODES)
        IN  /\ result.raised = "none"
            /\ Len(f) = nM + nL + nE + 3
            /\ Len(f) = 28
            /\ \A i \in 1..nM : f[i] = Flag(METALS[i] = p.metal)
            /\ f[nM + 1][1] * 3 = p.valency * f[nM + 1][2]
            /\ \A i \in 1..nL : f[nM + 1 + i] = Flag(LIGANDS[i] = p.ligand)
            /\ f[nM + nL + 2] = Flag(p.assembly = "Three-Electrode")
            /\ \A i \in 1..nE : f[nM + nL + 2 + i] = Flag(ELECTRODES[i] = p.electrode)
            /\ f[nM + nL + nE + 3] = Flag(p.is_mof)
            /\ BlockSumsToOne(f, 1, nM)
            /\ BlockSumsToOne(f, nM + 2, nM + 1 + nL)
            /\ BlockSumsToOne(f, nM + nL + 3, nM + nL + 2 + nE)

C6_Witness ==
    /\ Called("create_feature_vector")
    /\ call.args[1].metal = "W"
    /\ call.args[1].valency = 2
    /\ call.args[1].electrode = "Stainless Steel"
    /\ result.value[15] = RatInt(1)
    /\ result.value[16] = <<2, 3>>
    /\ result.value[27] = RatInt(1)

CuScenario ==
    [metal |-> "Cu", valency |-> 2, ligand |-> "BDC", assembly |-> "Two-Electrode",
     electrode |-> "Nickel Foam", is_mof |-> TRUE]
XxScenario ==
    [metal |-> "Xx", valency |-> 1, ligand |-> "BTC", assembly |-> "Two-Electrode",
     electrode |-> "Glassy Carbon", is_mof |-> FALSE]

\* C7: for every parameter set the tables hold (any metal, an unknown one
\* counting redox_factor 1.0) generate_gcd_curve uses base_capacity = 100 *
\* valency and capacity_multiplier = redox_factor * capacity_boost * porosity
\* * (1.5 if is_mof else 1.0) * (1.1 if Three-Electrode else 1.0), and the
\* time grid of every current density c ends at base_capacity *
\* capacity_multiplier / (c * 60); in the Cu scenario the multiplier is 2.574
\* and the grid of c = 0.5 ends at 17.16, in the Xx scenario the multiplier
\* is 1.2 and base_capacity is 100.
C7_GcdMaxTime ==
    (Called("generate_gcd_curve") /\ TablesHold(call.args[1])) =>
        LET p == call.args[1]
        IN  /\ result.raised = "none"
            /\ gcd_base_capacity(p) = 100 * p.valency
            /\ gcd_capacity_multiplier(p) = ClaimedCapacityMultiplier(p)
            /\ \A i \in DOMAIN GCD_CURRENTS :
                   LET time == result.value[GCD_KEYS[i]].time
                   IN  /\ gcd_max_time(p, GCD_CURRENTS[i]) = ClaimedMaxTime(p, GCD_CURRENTS[i])
                       /\ time[Len(time)] = ToFixed(ClaimedMaxTime(p, GCD_CURRENTS[i]), 1000)
            /\ p = CuScenario =>
                   /\ gcd_capacity_multiplier(p) = Rat(2574, 1000)
                   /\ gcd_max_time(p, Rat(5, 10)) = Rat(1716, 100)
                   /\ result.value["current_0.5"].time[GCD_POINTS] = 17160
            /\ p = XxScenario =>
                   /\ gcd_capacity_multiplier(p) = Rat(12, 10)
                   /\ gcd_base_capacity(p) = 100

C7_Witness ==
    /\ Called("generate_gcd_curve")
    /\ call.args[1] = CuScenario
    /\ result.raised = "none"
    /\ result.value["current_0.5"].time[GCD_POINTS] = 17160

\* C8: for every valid parameter set and every noise draw, every point of
\* specific_capacity lies in [0, max_capacity], max_capacity recomputed from
\* the inputs.
C8_RateClamped ==
    (/\ Called("generate_rate_capability")
     /\ call.args[1] \in ValidParams) =>
        /\ result.raised = "none"
        /\ \A k \in DOMAIN result.value.specific_capacity :
               /\ 0 <= result.value.specific_capacity[k]
               /\ result.value.specific_capacity[k]
                      <= ToFixed(ClaimedMaxCapacity(call.args[1]), 100)

\* a call whose noise was cut at the floor at one point and at the ceiling at
\* another
C8_Witness ==
    /\ Called("generate_rate_capability")
    /\ call.args[1] \in ValidParams
    /\ result.raised = "none"
    /\ \E k \in DOMAIN result.value.specific_capacity :
           result.value.specific_capacity[k] = 0
    /\ \E k \in DOMAIN result.value.specific_capacity :
           result.value.specific_capacity[k] = ToFixed(ClaimedMaxCapacity(call.args[1]), 100)

\* C9: for every metal, in the table or not, and every draw of intensities,
\* widths and noise, every intensity generate_ies_spectrum returns is >= 0.
C9_IesNonNegative ==
    Called("generate_ies_spectrum") =>
        /\ result.raised = "none"
        /\ \A k \in DOMAIN result.value.intensity : result.value.intensity[k] >= 0

\* an unknown metal, and a point the noise took below zero before the clip
C9_Witness ==
    /\ Called("generate_ies_spectrum")
    /\ call.args[1].metal \notin Range(METALS)
    /\ \E k \in DOMAIN result.value.intensity : result.value.intensity[k] = 0

\* C10: for every parameter set and every current density of the fixed set,
\* the time sequence returned starts at 0 and is non-decreasing.
C10_GcdTimeMonotone ==
    (Called("generate_gcd_curve") /\ result.raised = "none") =>
        \A key \in Range(GCD_KEYS) :
            LET time == result.value[key].time
            IN  /\ time[1] = 0
                /\ \A k \in 1..(Len(time) - 1) : time[k] <= time[k + 1]

C10_Witness ==
    /\ Called("generate_gcd_curve")
    /\ result.raised = "none"
    /\ result.value["current_2.5"].time[1] = 0
    /\ result.value["current_2.5"].time[GCD_POINTS] > 0

-----------------------------------------------------------------------------
(* Properties of the executions of the script                               *)

\* C1: two executions with the same RANDOM_SEED and sample count produce the
\* same dataset: sample i of one has the parameters and the four curves of
\* sample i of the other, for every i both have generated, and once both
\* have ended, what they have written is identical.
C1_SeededRunsAgree ==
    \A r1, r2 \in RunIds :
        /\ \A n \in 1..Min(Len(proc[r1].dataset), Len(proc[r2].dataset)) :
               /\ proc[r1].dataset[n] = proc[r2].dataset[n]
               /\ proc[r1].feature_data[n] = proc[r2].feature_data[n]
        /\ (proc[r1].pc \in {"failed", "saved"} /\ proc[r2].pc \in {"failed", "saved"}) =>
               /\ proc[r1].dataset = proc[r2].dataset
               /\ proc[r1].json_file = proc[r2].json_file
               /\ proc[r1].stdout = proc[r2].stdout
               /\ proc[r1].error = proc[r2].error

\* both executions have generated every sample and ended, and the samples
\* of an execution are not all alike
C1_Witness ==
    /\ Len(proc[1].dataset) = NUM_SAMPLES
    /\ Len(proc[2].dataset) = NUM_SAMPLES
    /\ proc[1].pc = "failed"
    /\ proc[2].pc = "failed"
    /\ \E n \in 1..NUM_SAMPLES : proc[1].dataset[n].inputs # proc[1].dataset[1].inputs

-----------------------------------------------------------------------------
(* Properties of the dashboard                                              *)

\* C5: a simulation asked for with a voltage range whose max is not above its
\* min is rejected at entry with InvalidParameterError, and no curve,
\* specific capacity or specific capacitance is computed from it.
C5_DegenerateRangeRejected ==
    (page.view # "welcome" /\ page.voltage_range[2] <= page.voltage_range[1]) =>
        /\ page.error = "InvalidParameterError"
        /\ page.results = <<>>

\* C19: for a metal that is a key of METAL_DATABASE the dashboard's
\* get_metal_properties returns that key's entry, and the simulation shown
\* is computed from its conductivity; the neutral default is returned only
\* for a symbol the database does not hold.
C19_DatabaseMetalUsed ==
    page.view = "results" =>
        /\ page.params.metal \in DOMAIN METAL_DATABASE =>
               /\ app_get_metal_properties(page.params.metal)
                      = METAL_DATABASE[page.params.metal]
               /\ page.results.Rct_before
                      = RatAdd(RatInt(5),
                               RatDiv(RatInt(3),
                                      Pct(METAL_DATABASE[page.params.metal].conductivity)))
        /\ app_get_metal_properties(page.params.metal).color = "#808080" =>
               page.params.metal \notin DOMAIN METAL_DATABASE

\* the key f"{metal}-{ligand}" of the page's parameters
ScholarKey == page.params.metal \o <<"-">> \o page.params.ligand

\* C20: when the comparison is asked for, the reference shown is the entry
\* of SCHOLAR_REFERENCES under 'metal-ligand' whenever the table has one,
\* and none is shown only when the table has no such entry.
C20_ScholarEntryFound ==
    (page.view # "welcome" /\ ui.compare_scholar) =>
        /\ ScholarKey \in DOMAIN SCHOLAR_REFERENCES =>
               page.scholar_ref = SCHOLAR_REFERENCES[ScholarKey]
        /\ page.scholar_ref = None => ScholarKey \notin DOMAIN SCHOLAR_REFERENCES

-----------------------------------------------------------------------------
(* Properties of the four generators, called with any parameter set         *)

ReturnedFrom(fn) == Called(fn) /\ result.raised = "none"

\* C11: all sequences of one generator's output have the same length: z_real,
\* z_imag and frequency 100 each, time and voltage of each GCD trace 200
\* each, current_density and specific_capacity 10 each, energy and intensity
\* 500 each.
C11_SequenceLengths ==
    /\ ReturnedFrom("generate_eis_nyquist") =>
           /\ Len(result.value.z_real) = 100
           /\ Len(result.value.z_imag) = 100
           /\ Len(result.value.frequency) = 100
    /\ ReturnedFrom("generate_gcd_curve") =>
           \A key \in DOMAIN result.value :
               /\ Len(result.value[key].time) = 200
               /\ Len(result.value[key].voltage) = 200
    /\ ReturnedFrom("generate_rate_capability") =>
           /\ Len(result.value.current_density) = 10
           /\ Len(result.value.specific_capacity) = 10
    /\ ReturnedFrom("generate_ies_spectrum") =>
           /\ Len(result.value.energy) = 500
           /\ Len(result.value.intensity) = 500

\* an impedance spectrum has been returned for an unknown metal, three
\* sequences of equal length
C11_Witness ==
    /\ ReturnedFrom("generate_eis_nyquist")
    /\ call.args[1].metal \notin Range(METALS)
    /\ Len(result.value.z_real) = Len(result.value.frequency)
    /\ Len(result.value.z_imag) = Len(result.value.frequency)

\* C16: for every parameter set generate_sample can draw, each of the four
\* generators completes: no lookup fails, nothing is divided by zero.
C16_TotalOverDrawnUniverse ==
    (call.done /\ call.args[1] \in ValidParams) => result.raised = "none"

\* the last ligand of LIGANDS has gone through the rate generator, which
\* looks up all three tables
C16_Witness ==
    /\ ReturnedFrom("generate_rate_capability")
    /\ call.args[1] \in ValidParams
    /\ call.args[1].ligand = LIGANDS[Len(LIGANDS)]
    /\ call.args[1].metal = METALS[Len(METALS)]

-----------------------------------------------------------------------------
(* Properties of generate_sample                                            *)

\* C12: the four outputs of a sample are what the four generators, run one
\* after the other on the stream, compute from the one parameter set the
\* sample stores as its inputs.
C12_OutputsOfStoredInputs ==
    ReturnedFrom("generate_sample") =>
        LET inputs == result.value.inputs
            gcd == generate_gcd_curve(inputs, Advance(call.at, Len(INPUT_KEYS)))
            rate_capability == generate_rate_capability(inputs, gcd.rng)
            ies == generate_ies_spectrum(inputs, rate_capability.rng)
            eis == generate_eis_nyquist(inputs, ies.rng)
        IN  result.value.outputs = [gcd |-> gcd.value,
                                    rate_capability |-> rate_capability.value,
                                    ies |-> ies.value,
                                    eis |-> eis.value]

\* a sample whose electrode and metal are not the first of their lists
C12_Witness ==
    /\ ReturnedFrom("generate_sample")
    /\ result.value.inputs.electrode # ELECTRODES[1]
    /\ result.value.inputs.metal # METALS[1]
    /\ DOMAIN result.value.outputs = {"gcd", "rate_capability", "ies", "eis"}

\* C18: one sample draws metal, valency, ligand, assembly, electrode, is_mof
\* as draws 1 to 6, then GCD starts at draw 7, rate capability at draw 1017,
\* IES at draw 1027 and EIS at draw 1531, and the call leaves the stream 1735
\* draws further on, whatever the parameters drawn.
C18_FixedDrawOrder ==
    ReturnedFrom("generate_sample") =>
        LET inputs == result.value.inputs
            outputs == result.value.outputs
            At(n) == [key |-> call.at.key, ctr |-> call.at.ctr + n]
        IN  /\ inputs.metal = Choice(METALS, call.at, 1)
            /\ inputs.valency = Choice(VALENCIES, call.at, 2)
            /\ inputs.ligand = Choice(LIGANDS, call.at, 3)
            /\ inputs.assembly = Choice(ASSEMBLIES, call.at, 4)
            /\ inputs.electrode = Choice(ELECTRODES, call.at, 5)
            /\ inputs.is_mof = Choice(IS_MOF, call.at, 6)
            /\ outputs.gcd = generate_gcd_curve(inputs, At(6)).value
            /\ generate_gcd_curve(inputs, At(6)).rng = At(1016)
            /\ outputs.rate_capability = generate_rate_capability(inputs, At(1016)).value
            /\ generate_rate_capability(inputs, At(1016)).rng = At(1026)
            /\ outputs.ies = generate_ies_spectrum(inputs, At(1026)).value
            /\ generate_ies_spectrum(inputs, At(1026)).rng = At(1530)
            /\ outputs.eis = generate_eis_nyquist(inputs, At(1530)).value
            /\ rng = At(1735)

\* a call made in mid-stream has returned, 1735 draws further on
C18_Witness ==
    /\ ReturnedFrom("generate_sample")
    /\ call.at.ctr > 0
    /\ rng.ctr = call.at.ctr + 1735

-----------------------------------------------------------------------------
(* Properties of main()                                                     *)

Ended(r) == proc[r].pc \in {"failed", "saved"}

\* C13: a run of main() reaches completion: it has generated NUM_SAMPLES
\* samples, written them all to the dataset file in generation order, and
\* written the feature summary, row i holding the inputs of sample i and
\* their feature vector.
C13_RunCompletes ==
    \A r \in RunIds :
        Ended(r) =>
            /\ proc[r].pc = "saved"
            /\ Len(proc[r].dataset) = NUM_SAMPLES
            /\ proc[r].json_file = [records |-> proc[r].dataset, partial |-> <<>>]
            /\ Len(proc[r].csv_file) = NUM_SAMPLES
            /\ \A i \in DOMAIN proc[r].csv_file :
                   proc[r].csv_file[i] = feature_row(proc[r].dataset[i])

\* line says that k samples have been generated
ReportsCount(line, k) == line[1] = "Generated" /\ line[2] = k

\* C14: a run that a failure has aborted reports, as it aborts, how many
\* samples it had generated.
C14_AbortReportsCount ==
    \A r \in RunIds :
        proc[r].pc = "failed" =>
            \E n \in DOMAIN proc[r].stderr :
                ReportsCount(proc[r].stderr[n], Len(proc[r].dataset))

\* C15: when a step prints 'Generated k/N samples', the dataset the step
\* started from, which is the dataset at the moment of the print, holds at
\* least k samples.
C15_ProgressNotAhead ==
    [][\A r \in RunIds :
           \A n \in DOMAIN proc'[r].stdout :
               (n > Len(proc[r].stdout) /\ proc'[r].stdout[n][1] = "Generated") =>
                   Len(proc[r].dataset) >= proc'[r].stdout[n][2]]_vars

\* C17: a sample in the dataset never changes: its inputs hold the six
\* parameters and no 'features' field, and no step of main() changes or
\* removes a sample the dataset already holds.
C17_SamplesImmutable ==
    /\ [](\A r \in RunIds :
             \A n \in DOMAIN proc[r].dataset :
                 DOMAIN proc[r].dataset[n].inputs = Range(INPUT_KEYS))
    /\ [][\A r \in RunIds :
             \A n \in DOMAIN proc[r].dataset :
                 /\ n \in DOMAIN proc'[r].dataset
                 /\ proc'[r].dataset[n] = proc[r].dataset[n]]_vars

\* the first sample's feature row has its 'features' field, later samples
\* have been generated and the dump has been attempted; the sample's inputs
\* have no such field
C17_Witness ==
    /\ Ended(1)
    /\ Len(proc[1].dataset) = NUM_SAMPLES
    /\ "features" \in DOMAIN proc[1].feature_data[1]
    /\ "features" \notin DOMAIN proc[1].dataset[1].inputs
    /\ proc[2].pc = "loop"

====
